---------------------------- MODULE Spec2Model ----------------------------
(* A model of the Boekenbeheer catalogue (src/main.py): the load-time      *)
(* column cleaning and role map, the text normalisation of save_excel, and *)
(* the script runs of concurrent browser sessions against the workbook.    *)
(* Text is a sequence of one-character strings, so that case folding,      *)
(* trimming and substring tests are computed, not assumed.                 *)
EXTENDS Naturals, Sequences, FiniteSets, TLC

(***************************************************************************)
(* Bounds of the model.                                                    *)
(***************************************************************************)
\* longest sequence of raw column names drawn for the role map
MaxCols == 3
\* longest field text drawn for the normalisation
MaxLen == 3
\* most rows of the sheet the first script run finds
MaxInitRows == 2
\* most script runs (page loads) of the one session of Spec and SpecInsert
MaxRuns == 2
\* most script runs over the two sessions of SpecRace
MaxRaceRuns == 2

(***************************************************************************)
(* Text: str.lower, str.upper, str.strip, the regex \s+ and "in".          *)
(***************************************************************************)
Lower(c) ==
    CASE c = "A" -> "a" [] c = "B" -> "b" [] c = "C" -> "c" [] c = "K" -> "k"
      [] c = "L" -> "l" [] c = "N" -> "n" [] c = "O" -> "o" [] c = "S" -> "s"
      [] c = "T" -> "t" [] c = "U" -> "u" [] OTHER -> c

Upper(c) ==
    CASE c = "a" -> "A" [] c = "b" -> "B" [] c = "c" -> "C" [] c = "k" -> "K"
      [] c = "l" -> "L" [] c = "n" -> "N" [] c = "o" -> "O" [] c = "s" -> "S"
      [] c = "t" -> "T" [] c = "u" -> "U" [] OTHER -> c

IsSpace(c) == c \in {" ", "\t"}

StrLower(s) == [i \in 1..Len(s) |-> Lower(s[i])]

RECURSIVE LStrip(_)
LStrip(s) == IF s # <<>> /\ IsSpace(Head(s)) THEN LStrip(Tail(s)) ELSE s

RECURSIVE RStrip(_)
RStrip(s) ==
    IF s # <<>> /\ IsSpace(s[Len(s)]) THEN RStrip(SubSeq(s, 1, Len(s) - 1)) ELSE s

\* str.strip()
Strip(s) == RStrip(LStrip(s))

\* re.sub(r"\s+", " ", s): every maximal run of whitespace becomes one space
RECURSIVE Collapse(_)
Collapse(s) ==
    IF s = <<>> THEN <<>>
    ELSE IF IsSpace(Head(s))
         THEN <<" ">> \o Collapse(LStrip(s))
         ELSE <<Head(s)>> \o Collapse(Tail(s))

\* marker in name
Contains(name, marker) ==
    \E i \in 0..Len(name) :
        /\ i + Len(marker) <= Len(name)
        /\ SubSeq(name, i + 1, i + Len(marker)) = marker

\* name matches the regex ^Unnamed
StartsWith(name, prefix) ==
    /\ Len(prefix) <= Len(name)
    /\ SubSeq(name, 1, Len(prefix)) = prefix

\* a capitalisation that upper-cases the first character and keeps the rest
CapitalizeKeepRest(s) ==
    IF s = <<>> THEN s ELSE <<Upper(Head(s))>> \o Tail(s)

\* str.capitalize(): first character upper-cased, every other lower-cased
Capitalize(s) ==
    IF s = <<>> THEN s ELSE <<Upper(Head(s))>> \o StrLower(Tail(s))

(***************************************************************************)
(* Markers and column names.                                               *)
(***************************************************************************)
mTaal == <<"t", "a", "a", "l">>
mLocatie == <<"l", "o", "c", "a", "t", "i", "e">>
mTitel == <<"t", "i", "t", "e", "l">>
mSchrijver == <<"s", "c", "h", "r", "i", "j", "v", "e", "r">>
mAuteur == <<"a", "u", "t", "e", "u", "r">>
mCategorie == <<"c", "a", "t", "e", "g", "o", "r", "i", "e">>
mUnnamed == <<"U", "n", "n", "a", "m", "e", "d">>

Roles == {"taal", "locatie", "titel", "schrijver", "categorie"}

\* the condition of each "if" of the role loop
Matches(r, c) ==
    CASE r = "taal" -> Contains(c, mTaal)
      [] r = "locatie" -> Contains(c, mLocatie)
      [] r = "titel" -> Contains(c, mTitel)
      [] r = "schrijver" -> Contains(c, mSchrijver) \/ Contains(c, mAuteur)
      [] r = "categorie" -> Contains(c, mCategorie)

\* raw header names as a workbook may hold them
RawTitel == <<"T", "i", "t", "e", "l">>
RawAuteur == <<"A", "u", "t", "e", "u", "r">>
RawTaal == <<"T", "a", "a", "l">>
RawLocatie == <<"L", "o", "c", "a", "t", "i", "e", " ", " ">>
RawCatTaal == <<"c", "a", "t", "e", "g", "o", "r", "i", "e", "_", "t", "a", "a", "l">>
RawSchrijver == <<" ", "S", "c", "h", "r", "i", "j", "v", "e", "r">>
RawOndertitel == <<"O", "n", "d", "e", "r", "t", "i", "t", "e", "l">>
RawUnnamed == <<"U", "n", "n", "a", "m", "e", "d", ":", " ", "0">>
RawNaam == <<"n", "a", "a", "m">>

RawNames ==
    {RawTitel, RawAuteur, RawTaal, RawLocatie, RawCatTaal, RawSchrijver,
     RawOndertitel, RawUnnamed, RawNaam}

\* sequences over S of length at most n without repetition (read_excel
\* mangles repeated headers, so the raw names of one sheet are distinct)
SeqsUpTo(S, n) == UNION {[1..k -> S] : k \in 0..n}

DistinctSeqs(S, n) ==
    {q \in SeqsUpTo(S, n) : \A i, j \in 1..Len(q) : q[i] = q[j] => i = j}

(***************************************************************************)
(* Load-time column cleaning and the role map.                             *)
(***************************************************************************)
\* indices of the columns kept by df.loc[:, ~columns.str.contains('^Unnamed')]
RECURSIVE KeptIndices(_, _)
KeptIndices(cols, i) ==
    IF i > Len(cols) THEN <<>>
    ELSE IF StartsWith(cols[i], mUnnamed)
         THEN KeptIndices(cols, i + 1)
         ELSE <<i>> \o KeptIndices(cols, i + 1)

\* columns.str.strip().str.lower()
CleanName(c) == StrLower(Strip(c))

CleanColumns(cols) ==
    LET k == KeptIndices(cols, 1) IN [i \in 1..Len(k) |-> CleanName(cols[k[i]])]

\* dict assignment m[r] = c
Assign(m, r, c) == [x \in DOMAIN m \cup {r} |-> IF x = r THEN c ELSE m[x]]

\* the same assignment made only while r has no column yet
AssignIfAbsent(m, r, c) == IF r \in DOMAIN m THEN m ELSE Assign(m, r, c)

\* one "if marker in c: col_map[role] = c"
IfMatch(m, r, c) == IF Matches(r, c) THEN Assign(m, r, c) ELSE m

\* a loop body in which a role, once assigned, is never reassigned
IdentifyColumnFirstWins(m, c) ==
    LET If(mm, r) == IF Matches(r, c) THEN AssignIfAbsent(mm, r, c) ELSE mm
    IN If(If(If(If(If(m, "taal"), "locatie"), "titel"), "schrijver"), "categorie")

\* a loop body that gives a column only the first role it satisfies
IdentifyColumnElif(m, c) ==
    CASE Matches("taal", c) -> Assign(m, "taal", c)
      [] Matches("locatie", c) -> Assign(m, "locatie", c)
      [] Matches("titel", c) -> Assign(m, "titel", c)
      [] Matches("schrijver", c) -> Assign(m, "schrijver", c)
      [] Matches("categorie", c) -> Assign(m, "categorie", c)
      [] OTHER -> m

\* the body of "for c in df.columns": five independent ifs, in this order
IdentifyColumn(m, c) ==
    IfMatch(IfMatch(IfMatch(IfMatch(IfMatch(m, "taal", c), "locatie", c),
                            "titel", c), "schrijver", c), "categorie", c)

EmptyMap == [x \in {} |-> <<>>]

RECURSIVE ColMapFrom(_, _, _)
ColMapFrom(m, cols, i) ==
    IF i > Len(cols) THEN m ELSE ColMapFrom(IdentifyColumn(m, cols[i]), cols, i + 1)

\* col_map after the loop over all columns
ColMap(cols) == ColMapFrom(EmptyMap, cols, 1)

(***************************************************************************)
(* Normalisation of save_excel.                                            *)
(***************************************************************************)
\* x.str.strip().replace(r"\s+", " ", regex=True)
CleanText(s) == Collapse(Strip(s))

CapIf(b, s) == IF b THEN Capitalize(s) ELSE s

\* what the loop over the columns does to one field of column c
ColumnPass(c, s) ==
    LET s1 == CapIf(Contains(c, mLocatie), s)
        s2 == CapIf(Contains(c, mTaal), s1)
        s3 == CapIf(Contains(c, mCategorie), s2)
    IN IF Contains(c, mTitel) \/ Contains(c, mSchrijver) \/ Contains(c, mAuteur)
       THEN Collapse(Strip(s3))
       ELSE s3

NormalizeField(c, s) == ColumnPass(c, CleanText(s))

(***************************************************************************)
(* Tables (DataFrames), the workbook files and the settings.               *)
(***************************************************************************)
tAb == <<"A", "b">>
tab == <<"a", "b">>
tSpAb == <<" ", "A", "b">>
tLoc == <<"k", " ", "A">>
tNan == <<"n", "a", "n">>
\* a missing value (float NaN) of a frame as read_excel returns it
NaN == <<"NaN">>

FILE_DEFAULT == "Boeken_Map.xlsx"
OtherPath == "elders.xlsx"
RemoteUrl == "https://example.org/boeken.xlsx"
Paths == {FILE_DEFAULT, OtherPath, RemoteUrl}

DefaultSettings ==
    [data_source |-> "local", data_path |-> FILE_DEFAULT, remote_url |-> ""]

SettingsPool ==
    {DefaultSettings,
     [data_source |-> "local", data_path |-> OtherPath, remote_url |-> ""],
     [data_source |-> "remote", data_path |-> FILE_DEFAULT, remote_url |-> RemoteUrl]}

Frame(cols, rows) == [cols |-> cols, rows |-> rows]

EmptyFrame == Frame(<<>>, <<>>)

\* position of column c in the frame, 0 when the frame has no such column
ColPos(T, c) ==
    IF \E i \in 1..Len(T.cols) : T.cols[i] = c
    THEN CHOOSE i \in 1..Len(T.cols) :
             T.cols[i] = c /\ \A j \in 1..(i - 1) : T.cols[j] # c
    ELSE 0

MapCells(T, f(_, _)) ==
    Frame(T.cols,
          [i \in 1..Len(T.rows) |->
              [j \in 1..Len(T.cols) |-> f(T.cols[j], T.rows[i][j])]])

\* a cell of a sheet as pandas reads it: empty cells and the default
\* na_values (of which "nan" is one) come back as NaN
ReadCell(c, v) == IF v = <<>> \/ v = tNan THEN NaN ELSE v

\* pd.read_excel of a complete workbook
ReadExcel(data) == MapCells(data, ReadCell)

\* astype(str)
AsStr(c, v) == IF v = NaN THEN tNan ELSE v

\* lines 86-88 on the frame load_excel returned
CleanFrame(raw) ==
    LET k == KeptIndices(raw.cols, 1)
        kept == Frame([i \in 1..Len(k) |-> CleanName(raw.cols[k[i]])],
                      [r \in 1..Len(raw.rows) |->
                          [i \in 1..Len(k) |-> raw.rows[r][k[i]]]])
    IN MapCells(kept, AsStr)

\* the frame save_excel writes: line 48 and the loop of lines 49-57
NormalizeTable(T) == MapCells(T, NormalizeField)

\* the path load_excel reads (lines 35-39)
LoadPath(st) ==
    IF st.data_source = "remote" /\ st.remote_url # ""
    THEN st.remote_url
    ELSE st.data_path

\* whether load_excel returns a frame: a cached one, or a readable workbook
CanLoad(c, f, st) == c.full \/ f[LoadPath(st)].state = "ok"

\* load_excel (lines 31-43): the cached frame, or the workbook read anew
LoadExcel(c, f, st) ==
    IF c.full THEN c.df ELSE ReadExcel(f[LoadPath(st)].data)

OkFile(data) == [state |-> "ok", data |-> data]
TruncatedFile == [state |-> "truncated", data |-> EmptyFrame]
CorruptFile == [state |-> "corrupt", data |-> EmptyFrame]

\* titel_col = col_map.get("titel", "titel")
TitelCol(m) == IF "titel" \in DOMAIN m THEN m["titel"] ELSE mTitel

\* df[df[titel_col] == v].index, as the sequence of matching positions
RECURSIVE MatchFrom(_, _, _, _)
MatchFrom(T, j, v, i) ==
    IF i > Len(T.rows) THEN <<>>
    ELSE IF T.rows[i][j] = v
         THEN <<i>> \o MatchFrom(T, j, v, i + 1)
         ELSE MatchFrom(T, j, v, i + 1)

MatchIdx(T, titel_col, v) == MatchFrom(T, ColPos(T, titel_col), v, 1)

\* the rows whose title equals v exactly, case included
TitleMatchesExact(T, titel_col, v) ==
    {i \in 1..Len(T.rows) : T.rows[i][ColPos(T, titel_col)] = v}

\* df[df[titel_col].str.lower() == v.lower()], as the set of positions
TitleMatches(T, titel_col, v) ==
    {i \in 1..Len(T.rows) :
        StrLower(T.rows[i][ColPos(T, titel_col)]) = StrLower(v)}

RECURSIVE RowsWithout(_, _, _)
RowsWithout(rows, drop, i) ==
    IF i > Len(rows) THEN <<>>
    ELSE IF i \in drop
         THEN RowsWithout(rows, drop, i + 1)
         ELSE <<rows[i]>> \o RowsWithout(rows, drop, i + 1)

\* a delete by title value: every row with the title of row idx goes
DropAllWithTitle(T, idx) ==
    LET j == ColPos(T, TitelCol(ColMap(T.cols)))
    IN Frame(T.cols,
             RowsWithout(T.rows,
                         {i \in 1..Len(T.rows) :
                             j = 0 \/ T.rows[i][j] = T.rows[idx][j]}, 1))

\* df.drop(index) followed by reset_index(drop=True)
Drop(T, idx) == Frame(T.cols, RowsWithout(T.rows, {idx}, 1))

\* pd.concat([df, pd.DataFrame([new_entry])], ignore_index=True)
Concat(T, entry) == Frame(T.cols, Append(T.rows, entry))

\* df.at[idx, col] = edited[col] for every column
SetRow(T, idx, edited) == Frame(T.cols, [T.rows EXCEPT ![idx] = edited])

Sessions == {1, 2}

VARIABLES r_pc, r_columns, r_i, r_col_map, n_pc, n_col, n_in, n_val,
          files, cache, settings, runs,
          pc, button, df0, df, col_map, idx, new_entry, advisory,
          title_matches, save_arg

rvars == <<r_pc, r_columns, r_i, r_col_map>>
nvars == <<n_pc, n_col, n_in, n_val>>
shared == <<files, cache, settings, runs>>
locals == <<pc, button, df0, df, col_map, idx, new_entry, advisory,
            title_matches, save_arg>>
mvars == <<shared, locals>>
vars == <<rvars, nvars, mvars>>

(***************************************************************************)
(* SpecRoles: the module-level load code applied to any header row.        *)
(***************************************************************************)
NoLocals ==
    /\ pc = [s \in Sessions |-> "idle"]
    /\ button = [s \in Sessions |-> "none"]
    /\ df0 = [s \in Sessions |-> EmptyFrame]
    /\ df = [s \in Sessions |-> EmptyFrame]
    /\ col_map = [s \in Sessions |-> EmptyMap]
    /\ idx = [s \in Sessions |-> 0]
    /\ new_entry = [s \in Sessions |-> <<>>]
    /\ advisory = [s \in Sessions |-> {}]
    /\ title_matches = [s \in Sessions |-> {}]
    /\ save_arg = [s \in Sessions |-> EmptyFrame]

MInitIdle ==
    /\ files = [p \in Paths |-> OkFile(EmptyFrame)]
    /\ cache = [full |-> FALSE, df |-> EmptyFrame]
    /\ settings = DefaultSettings
    /\ runs = 0
    /\ NoLocals

NInitIdle == n_pc = "off" /\ n_col = <<>> /\ n_in = <<>> /\ n_val = <<>>

RInitIdle == r_pc = "off" /\ r_columns = <<>> /\ r_i = 0 /\ r_col_map = EmptyMap

InitRoles ==
    /\ r_pc = "raw"
    /\ r_columns \in DistinctSeqs(RawNames, MaxCols)
    /\ r_i = 0
    /\ r_col_map = EmptyMap
    /\ NInitIdle
    /\ MInitIdle

\* lines 86-87 and 91
CleanStep ==
    /\ r_pc = "raw"
    /\ r_columns' = CleanColumns(r_columns)
    /\ r_i' = 1
    /\ r_col_map' = EmptyMap
    /\ r_pc' = "loop"
    /\ UNCHANGED <<nvars, mvars>>

\* one iteration of the loop of lines 92-102
IdentifyStep ==
    /\ r_pc = "loop"
    /\ r_i <= Len(r_columns)
    /\ r_col_map' = IdentifyColumn(r_col_map, r_columns[r_i])
    /\ r_i' = r_i + 1
    /\ UNCHANGED <<r_pc, r_columns, nvars, mvars>>

LoopExit ==
    /\ r_pc = "loop"
    /\ r_i > Len(r_columns)
    /\ r_pc' = "done"
    /\ UNCHANGED <<r_columns, r_i, r_col_map, nvars, mvars>>

NextRoles == CleanStep \/ IdentifyStep \/ LoopExit

SpecRoles == InitRoles /\ [][NextRoles]_vars

(***************************************************************************)
(* SpecNorm: the text cleaning of save_excel applied to any field.         *)
(***************************************************************************)
FieldChars == {"k", "A", " ", "\t"}

CleanNames == {CleanName(c) : c \in RawNames \ {RawUnnamed}}

InitNorm ==
    /\ n_pc = "raw"
    /\ n_col \in CleanNames
    /\ n_in \in SeqsUpTo(FieldChars, MaxLen)
    /\ n_val = n_in
    /\ RInitIdle
    /\ MInitIdle

\* line 48
ApplyStep ==
    /\ n_pc = "raw"
    /\ n_val' = CleanText(n_val)
    /\ n_pc' = "columns"
    /\ UNCHANGED <<n_col, n_in, rvars, mvars>>

\* lines 49-57 for the column n_col
ColumnStep ==
    /\ n_pc = "columns"
    /\ n_val' = ColumnPass(n_col, n_val)
    /\ n_pc' = "done"
    /\ UNCHANGED <<n_col, n_in, rvars, mvars>>

NextNorm == ApplyStep \/ ColumnStep

SpecNorm == InitNorm /\ [][NextNorm]_vars


(***************************************************************************)
(* Spec: script runs of the sessions against the workbook.                 *)
(* The workbook holds the one sheet "Boeken lijst", which is therefore the *)
(* sheet read_excel reads and the sheet save_excel replaces.               *)
(***************************************************************************)
InitSchemas ==
    {<<RawTitel, RawLocatie>>, <<RawUnnamed, RawTitel>>, <<RawNaam>>}

\* the cells a sheet may hold under a header
CellPool(c) ==
    IF StartsWith(c, mUnnamed) THEN {<<"0">>}
    ELSE IF Contains(CleanName(c), mLocatie) THEN {tLoc}
    ELSE {tAb, tab, <<>>}

RowPool(cols) ==
    {r \in [1..Len(cols) -> {tAb, tab, <<>>, tLoc, <<"0">>}] :
        \A j \in 1..Len(cols) : r[j] \in CellPool(cols[j])}

InitSheets ==
    UNION {{Frame(cols, rows) : rows \in SeqsUpTo(RowPool(cols), MaxInitRows)} :
              cols \in InitSchemas}

\* what a user may type into a text field
TextPool == {<<>>, tAb, tab, tSpAb}

\* the application started over one of the sheets W with the browser
\* sessions of `open' connected; runs counts the script runs still to come
InitWith(W, open, n) ==
    /\ \E w \in W : files = [p \in Paths |-> OkFile(w)]
    /\ cache = [full |-> FALSE, df |-> EmptyFrame]
    /\ settings \in SettingsPool
    /\ runs = n
    /\ pc = [s \in Sessions |-> IF s \in open THEN "idle" ELSE "closed"]
    /\ button = [s \in Sessions |-> "none"]
    /\ df0 = [s \in Sessions |-> EmptyFrame]
    /\ df = [s \in Sessions |-> EmptyFrame]
    /\ col_map = [s \in Sessions |-> EmptyMap]
    /\ idx = [s \in Sessions |-> 0]
    /\ new_entry = [s \in Sessions |-> <<>>]
    /\ advisory = [s \in Sessions |-> {}]
    /\ title_matches = [s \in Sessions |-> {}]
    /\ save_arg = [s \in Sessions |-> EmptyFrame]
    /\ RInitIdle
    /\ NInitIdle

Init == InitWith(InitSheets, {1}, MaxRuns)

\* a script run has ended: the next user action starts another
Ended ==
    {"idle", "stopped", "raised", "notfound", "unconfirmed", "rejected",
     "saved", "unsaved", "interrupted"}

\* lines 83-102: load_excel (cached), the column cleaning and the role map
Load(s) ==
    /\ pc[s] \in Ended
    /\ runs > 0
    /\ runs' = runs - 1
    /\ button' = [button EXCEPT ![s] = "none"]
    /\ idx' = [idx EXCEPT ![s] = 0]
    /\ new_entry' = [new_entry EXCEPT ![s] = <<>>]
    /\ advisory' = [advisory EXCEPT ![s] = {}]
    /\ title_matches' = [title_matches EXCEPT ![s] = {}]
    /\ save_arg' = [save_arg EXCEPT ![s] = EmptyFrame]
    /\ IF ~CanLoad(cache, files, settings)
       THEN \* read_excel raises: st.error and st.stop
            /\ pc' = [pc EXCEPT ![s] = "stopped"]
            /\ df0' = [df0 EXCEPT ![s] = EmptyFrame]
            /\ df' = [df EXCEPT ![s] = EmptyFrame]
            /\ col_map' = [col_map EXCEPT ![s] = EmptyMap]
            /\ UNCHANGED cache
       ELSE LET raw == LoadExcel(cache, files, settings)
                T == CleanFrame(raw)
            IN /\ cache' = [full |-> TRUE, df |-> raw]
               /\ df0' = [df0 EXCEPT ![s] = T]
               /\ df' = [df EXCEPT ![s] = T]
               /\ col_map' = [col_map EXCEPT ![s] = ColMap(T.cols)]
               /\ pc' = [pc EXCEPT ![s] = "loaded"]
    /\ UNCHANGED <<files, settings, rvars, nvars>>

\* save_excel up to the opening of the writer (lines 45-65), called with T
\* by a handler of session s
SaveCall(s, T) ==
    /\ save_arg' = [save_arg EXCEPT ![s] = T]
    /\ pc' = [pc EXCEPT ![s] =
                 IF settings.data_source = "remote" THEN "unsaved"
                 ELSE IF files[FILE_DEFAULT].state # "ok" THEN "raised"
                 ELSE "open"]

\* lines 177-186: a ticked row of the editor, whose title cell reads v
Select(s, v) ==
    /\ pc[s] = "loaded"
    /\ button[s] = "none"
    /\ df[s].rows # <<>>
    /\ LET titel_col == TitelCol(col_map[s])
       IN IF ColPos(df[s], titel_col) = 0
          THEN \* KeyError
               /\ pc' = [pc EXCEPT ![s] = "raised"]
               /\ idx' = idx
          ELSE LET match_idx == MatchIdx(df[s], titel_col, v)
               IN IF match_idx = <<>>
                  THEN /\ pc' = [pc EXCEPT ![s] = "notfound"]
                       /\ idx' = idx
                  ELSE /\ pc' = [pc EXCEPT ![s] = "selected"]
                       /\ idx' = [idx EXCEPT ![s] = match_idx[1]]
    /\ button' = [button EXCEPT ![s] = "select"]
    /\ UNCHANGED <<shared, df0, df, col_map, new_entry, advisory,
                   title_matches, save_arg, rvars, nvars>>

\* lines 209-214
SaveEdit(s, edited) ==
    /\ pc[s] = "selected"
    /\ button' = [button EXCEPT ![s] = "save_edit"]
    /\ df' = [df EXCEPT ![s] = SetRow(df[s], idx[s], edited)]
    /\ SaveCall(s, SetRow(df[s], idx[s], edited))
    /\ UNCHANGED <<shared, df0, col_map, idx, new_entry, advisory,
                   title_matches, rvars, nvars>>

\* lines 216-223 and delete_book (lines 74-78)
Delete(s, confirm) ==
    /\ pc[s] = "selected"
    /\ button' = [button EXCEPT ![s] = "delete"]
    /\ IF confirm
       THEN SaveCall(s, Drop(df[s], idx[s]))
       ELSE /\ pc' = [pc EXCEPT ![s] = "unconfirmed"]
            /\ UNCHANGED save_arg
    /\ UNCHANGED <<shared, df0, df, col_map, idx, new_entry, advisory,
                   title_matches, rvars, nvars>>

\* line 262, shown while the form is filled in
AdvisoryMatches(T, titel_col, v) == TitleMatches(T, titel_col, v)

\* line 269, when the button is pressed
SubmitMatches(T, titel_col, v) == TitleMatches(T, titel_col, v)

\* lines 260-277 with the button pressed
Add(s, entry) ==
    /\ pc[s] = "loaded"
    /\ button[s] = "none"
    /\ Len(entry) = Len(df[s].cols)
    /\ button' = [button EXCEPT ![s] = "add"]
    /\ new_entry' = [new_entry EXCEPT ![s] = entry]
    /\ LET titel_col == TitelCol(col_map[s])
           j == ColPos(df[s], titel_col)
           checked == j # 0 /\ entry[j] # <<>>
           adv == IF checked THEN AdvisoryMatches(df[s], titel_col, entry[j]) ELSE {}
           sub == IF checked THEN SubmitMatches(df[s], titel_col, entry[j]) ELSE {}
       IN /\ advisory' = [advisory EXCEPT ![s] = adv]
          /\ title_matches' = [title_matches EXCEPT ![s] = sub]
          /\ IF sub # {}
             THEN /\ pc' = [pc EXCEPT ![s] = "rejected"]
                  /\ UNCHANGED <<df, save_arg>>
             ELSE /\ df' = [df EXCEPT ![s] = Concat(df[s], entry)]
                  /\ SaveCall(s, Concat(df[s], entry))
    /\ UNCHANGED <<shared, df0, col_map, idx, rvars, nvars>>

\* line 67: the writer opens the workbook for writing, which empties it
OpenWriter(s) ==
    /\ pc[s] = "open"
    /\ files' = [files EXCEPT ![FILE_DEFAULT] = TruncatedFile]
    /\ pc' = [pc EXCEPT ![s] = "write"]
    /\ UNCHANGED <<cache, settings, runs, button, df0, df, col_map, idx,
                   new_entry, advisory, title_matches, save_arg, rvars, nvars>>

\* lines 68-72: the sheets are written and the writer closed, the cache is
\* cleared. Bytes written over those another writer put down since this one
\* opened the file may leave a workbook no reader can open.
CloseWriter(s) ==
    /\ pc[s] = "write"
    /\ \/ files' = [files EXCEPT ![FILE_DEFAULT] = OkFile(NormalizeTable(save_arg[s]))]
       \/ /\ files[FILE_DEFAULT].state # "truncated"
          /\ files' = [files EXCEPT ![FILE_DEFAULT] = CorruptFile]
    /\ cache' = [full |-> FALSE, df |-> EmptyFrame]
    /\ pc' = [pc EXCEPT ![s] = "saved"]
    /\ UNCHANGED <<settings, runs, button, df0, df, col_map, idx,
                   new_entry, advisory, title_matches, save_arg, rvars, nvars>>

\* the write fails or the process is stopped while the writer is open
Interrupt(s) ==
    /\ pc[s] = "write"
    /\ pc' = [pc EXCEPT ![s] = "interrupted"]
    /\ UNCHANGED <<shared, button, df0, df, col_map, idx, new_entry,
                   advisory, title_matches, save_arg, rvars, nvars>>

\* lines 369-391 with the button pressed
SaveSettings(s, new) ==
    /\ pc[s] = "loaded"
    /\ button[s] = "none"
    /\ new # settings
    /\ settings' = new
    /\ button' = [button EXCEPT ![s] = "settings"]
    /\ pc' = [pc EXCEPT ![s] = "idle"]
    /\ UNCHANGED <<files, cache, runs, df0, df, col_map, idx, new_entry,
                   advisory, title_matches, save_arg, rvars, nvars>>

\* the values the edit form and the add form can submit for the columns
Entries(T) ==
    {e \in [1..Len(T.cols) -> TextPool \cup {tLoc}] :
        \A j \in 1..Len(T.cols) :
            IF Contains(T.cols[j], mLocatie) THEN e[j] = tLoc ELSE e[j] \in TextPool}

Next ==
    \E s \in Sessions :
        \/ Load(s)
        \/ \E v \in TextPool : Select(s, v)
        \/ \E e \in Entries(df[s]) : SaveEdit(s, e)
        \/ \E b \in BOOLEAN : Delete(s, b)
        \/ \E e \in Entries(df[s]) : Add(s, e)
        \/ OpenWriter(s)
        \/ CloseWriter(s)
        \/ Interrupt(s)
        \/ \E n \in SettingsPool : SaveSettings(s, n)

Spec == Init /\ [][Next]_vars

(***************************************************************************)
(* SpecRace: two sessions whose script runs interleave.                    *)
(***************************************************************************)
InitRace == InitWith(InitSheets, Sessions, MaxRaceRuns)

SpecRace == InitRace /\ [][Next]_vars


(***************************************************************************)
(* SpecInsert: one session that only adds books, over a sheet that has a   *)
(* title column and no two titles equal up to case.                        *)
(***************************************************************************)
\* position of the title-role column in a sheet as stored, 0 without one
StoredTitlePos(data) ==
    LET m == ColMap(CleanColumns(data.cols))
    IN IF "titel" \in DOMAIN m
       THEN CHOOSE i \in 1..Len(data.cols) :
                /\ ~StartsWith(data.cols[i], mUnnamed)
                /\ CleanName(data.cols[i]) = m["titel"]
       ELSE 0

TitlesDistinct(data) ==
    LET j == StoredTitlePos(data)
    IN j # 0 =>
         \A a, b \in 1..Len(data.rows) :
            StrLower(data.rows[a][j]) = StrLower(data.rows[b][j]) => a = b

InitInsert ==
    InitWith({w \in InitSheets : StoredTitlePos(w) # 0 /\ TitlesDistinct(w)},
             {1}, MaxRuns)

NextInsert ==
    \E s \in Sessions :
        \/ Load(s)
        \/ \E e \in Entries(df[s]) : Add(s, e)
        \/ OpenWriter(s)
        \/ CloseWriter(s)

SpecInsert == InitInsert /\ [][NextInsert]_vars

(***************************************************************************)
(* The claims.                                                             *)
(***************************************************************************)
MatchingColumns(r) == {i \in 1..Len(r_columns) : Matches(r, r_columns[i])}

MaxOf(S) == CHOOSE i \in S : \A j \in S : j <= i
MinOf(S) == CHOOSE i \in S : \A j \in S : i <= j

CapColumn(c) ==
    Contains(c, mLocatie) \/ Contains(c, mTaal) \/ Contains(c, mCategorie)

TextColumn(c) ==
    Contains(c, mTitel) \/ Contains(c, mSchrijver) \/ Contains(c, mAuteur)

SingleSpaced(t) ==
    /\ t # <<>> => ~IsSpace(t[1]) /\ ~IsSpace(t[Len(t)])
    /\ \A i \in 1..Len(t) : IsSpace(t[i]) => t[i] = " " /\ ~IsSpace(t[i + 1])

\* C9 as stated: a field of a location, language or category column has its
\* first letter upper-cased and every other character unchanged; a field of
\* a title or author column has no character's case changed.
C9_RestUnchanged ==
    n_pc = "done" =>
        LET t == CleanText(n_in)
        IN /\ CapColumn(n_col) =>
                /\ Len(n_val) = Len(t)
                /\ \A i \in 1..Len(t) :
                      n_val[i] = IF i = 1 THEN Upper(t[i]) ELSE t[i]
           /\ (TextColumn(n_col) /\ ~CapColumn(n_col)) => n_val = t

\* C9 as amended: the written field is stripped and single-spaced; in a
\* column whose name contains locatie, taal or categorie its first character
\* is upper-cased and EVERY OTHER CHARACTER IS LOWER-CASED; in any other
\* column no character's case is changed.
C9_RestLowered ==
    n_pc = "done" =>
        LET t == CleanText(n_in)
        IN /\ SingleSpaced(n_val)
           /\ Len(n_val) = Len(t)
           /\ \A i \in 1..Len(t) :
                 n_val[i] = IF ~CapColumn(n_col) THEN t[i]
                            ELSE IF i = 1 THEN Upper(t[i]) ELSE Lower(t[i])

\* C9 witness: a capitalised column whose field had an upper-case letter
\* after the first character, which the write has lower-cased.
C9_Witness ==
    /\ n_pc = "done"
    /\ CapColumn(n_col)
    /\ \E i \in 2..Len(n_val) :
          CleanText(n_in)[i] = "A" /\ n_val[i] = "a" /\ n_val[1] = "K"

EqualUpToCase(a, b) ==
    Len(a) = Len(b) /\ \A k \in 1..Len(a) : Lower(a[k]) = Lower(b[k])

DeleteRan(s) ==
    button[s] = "delete" /\ pc[s] \in {"open", "write", "saved", "unsaved",
                                       "raised", "interrupted"}

\* C2: deleting the position Find-by-title resolved hands save_excel the
\* loaded table with exactly one record removed: one row shorter, the same
\* columns, the removed row being the first with its title, every other row
\* with its values and in its order (later rows one position down).
C2_DeleteRemovesOne ==
    \A s \in Sessions :
        DeleteRan(s) =>
            LET T == df[s]
                D == save_arg[s]
                k == idx[s]
                j == ColPos(T, TitelCol(col_map[s]))
            IN /\ j # 0
               /\ k \in 1..Len(T.rows)
               /\ \A i \in 1..(k - 1) : T.rows[i][j] # T.rows[k][j]
               /\ D.cols = T.cols
               /\ Len(D.rows) = Len(T.rows) - 1
               /\ \A i \in 1..Len(D.rows) :
                     D.rows[i] = IF i < k THEN T.rows[i] ELSE T.rows[i + 1]

\* C2 witness: the first of two rows with the same title was deleted and
\* written, the second moving down to position 1.
C2_Witness ==
    \E s \in Sessions :
        /\ DeleteRan(s)
        /\ pc[s] = "saved"
        /\ Len(df[s].rows) = 2
        /\ idx[s] = 1
        /\ df[s].rows[1][ColPos(df[s], TitelCol(col_map[s]))]
             = df[s].rows[2][ColPos(df[s], TitelCol(col_map[s]))]
        /\ save_arg[s].rows = <<df[s].rows[2]>>

\* C4: in a run of the add page whose button is pressed, the advisory check
\* and the submit check flag the same rows, namely those whose title equals
\* the entered one up to case; when that set is not empty the run stops with
\* the table unchanged and save_excel never called, and otherwise exactly
\* the entered record is appended at the end of the table.
C4_SubmitCheck ==
    \A s \in Sessions :
        button[s] = "add" =>
            LET T == df0[s]
                j == ColPos(T, TitelCol(col_map[s]))
                e == new_entry[s]
                expected == IF j = 0 THEN {}
                            ELSE {i \in 1..Len(T.rows) :
                                     EqualUpToCase(T.rows[i][j], e[j])}
            IN /\ advisory[s] = expected
               /\ title_matches[s] = expected
               /\ expected # {} =>
                     /\ pc[s] = "rejected"
                     /\ df[s] = T
                     /\ save_arg[s] = EmptyFrame
               /\ expected = {} =>
                     /\ pc[s] # "rejected"
                     /\ df[s] = Frame(T.cols, Append(T.rows, e))
                     /\ save_arg[s] = df[s]

\* C4 witness: a submission rejected for a title that differs from the
\* stored one only in case.
C4_Witness ==
    \E s \in Sessions :
        /\ button[s] = "add"
        /\ pc[s] = "rejected"
        /\ \E i \in title_matches[s] :
              df0[s].rows[i][ColPos(df0[s], TitelCol(col_map[s]))]
                 # new_entry[s][ColPos(df0[s], TitelCol(col_map[s]))]

Returned == {"saved", "unsaved"}

\* C3 as stated: when save_excel returns, what a load yields (load_excel,
\* the column cleaning and astype(str)) equals the normalised table that was
\* handed to save_excel, field for field.
C3_RoundTrip ==
    [][\A s \in Sessions :
          (pc[s] \notin Returned /\ pc'[s] \in Returned) =>
              /\ CanLoad(cache', files', settings')
              /\ CleanFrame(LoadExcel(cache', files', settings'))
                    = NormalizeTable(save_arg'[s])]_vars

\* C5 as stated: after a write that failed or was interrupted part-way the
\* workbook is still a complete table.
C5_AllOrNothing ==
    \A s \in Sessions :
        pc[s] = "interrupted" => files[FILE_DEFAULT].state = "ok"

\* C6 as stated: when the second of two sessions that loaded the same table
\* completes its persist, the store load() reads holds exactly the table
\* that session wrote, and neither session was told of an error.
C6_SecondWriterWins ==
    [][\A s, t \in Sessions :
          (/\ s # t
           /\ pc[t] \in Returned
           /\ button[t] \in {"save_edit", "delete", "add"}
           /\ df0[s] = df0[t]
           /\ pc[s] \notin Returned
           /\ pc'[s] \in Returned) =>
              /\ pc'[s] = "saved"
              /\ pc[t] = "saved"
              /\ files'[LoadPath(settings')] = OkFile(NormalizeTable(save_arg'[s]))]_vars

\* C8 as stated: the lookup of the ticked row either finds the first row
\* with exactly that title or reports not-found; it never raises, also when
\* no column plays the title role.
C8_LookupNeverRaises ==
    \A s \in Sessions :
        button[s] = "select" =>
            /\ pc[s] \in {"selected", "notfound"}
            /\ pc[s] = "selected" =>
                  LET j == ColPos(df[s], TitelCol(col_map[s]))
                  IN \A i \in 1..(idx[s] - 1) :
                        df[s].rows[i][j] # df[s].rows[idx[s]][j]

\* C10 as stated: over a sheet whose titles are distinct up to case, after
\* any sequence of add-book submissions every complete workbook still has
\* no two records whose titles are equal up to case.
C10_NoDuplicateTitles ==
    \A p \in Paths :
        files[p].state = "ok" => TitlesDistinct(files[p].data)

=============================================================================
